---------------------------- MODULE Spec2Model ----------------------------
(***************************************************************************)
(* A model of the AI Builder backend (src/main.py): the FastAPI handlers   *)
(* read_root, hello, test_database, chat_endpoint and plan_endpoint, and   *)
(* the "generation" collection of the document store they share.           *)
(*                                                                         *)
(* Strings the handlers compute with (message, idea, history content,      *)
(* reply, summary, id) are sequences of one-character strings, so that     *)
(* strip(), lower(), `in`, len() and concatenation are modelled by what    *)
(* they do.  Strings the handlers only carry (the fixed literals of the    *)
(* plan, the feature names, error details) are TLA+ strings.               *)
(* An Optional value is None (the empty tuple) or Some(v) (a 1-tuple).     *)
(***************************************************************************)
EXTENDS Integers, Sequences, FiniteSets, TLC

VARIABLES
  db,          \* the store handle: "none" (db is None), "up", or "down"
  generation,  \* the "generation" collection: the stored documents, in order
  attempts,    \* create_document calls made since start
  accepted,    \* plan requests that passed validation since start
  succeeded,   \* create_document calls that returned since start
  pc,          \* "idle", or "responded" while a response is being returned
  req,         \* the request being handled
  resp,        \* the response of the handler
  calls,       \* the create_document calls of the request being handled
  seen         \* an earlier chat exchange and the store it was made under

vars ==
  <<db, generation, attempts, accepted, succeeded, pc, req, resp, calls, seen>>

---------------------------------------------------------------------------
\* Bounds of the model.

\* Longest history of a chat request.
MaxHist == 2
\* Most pieces a chat message is made of.
MaxPieces == 2
\* Most create_document calls in a run.
MaxAttempts == 2

---------------------------------------------------------------------------
\* Optional values and Python's `x or default`.

None == <<>>

Some(v) == <<v>>

\* `x or d` for an Optional sequence x: d when x is None or empty.
OrElse(x, d) == IF x = None \/ x[1] = <<>> THEN d ELSE x[1]

---------------------------------------------------------------------------
\* Strings as sequences of characters.

Whitespace == {" ", "\t", "\n", "\r"}

RECURSIVE lstrip(_)
lstrip(s) ==
  IF s # <<>> /\ Head(s) \in Whitespace THEN lstrip(Tail(s)) ELSE s

RECURSIVE rstrip(_)
rstrip(s) ==
  IF s # <<>> /\ s[Len(s)] \in Whitespace
  THEN rstrip(SubSeq(s, 1, Len(s) - 1))
  ELSE s

\* str.strip()
strip(s) == rstrip(lstrip(s))

LowerChar(c) ==
  CASE c = "A" -> "a" [] c = "B" -> "b" [] c = "C" -> "c" [] c = "D" -> "d"
    [] c = "E" -> "e" [] c = "F" -> "f" [] c = "G" -> "g" [] c = "H" -> "h"
    [] c = "I" -> "i" [] c = "J" -> "j" [] c = "K" -> "k" [] c = "L" -> "l"
    [] c = "M" -> "m" [] c = "N" -> "n" [] c = "O" -> "o" [] c = "P" -> "p"
    [] c = "Q" -> "q" [] c = "R" -> "r" [] c = "S" -> "s" [] c = "T" -> "t"
    [] c = "U" -> "u" [] c = "V" -> "v" [] c = "W" -> "w" [] c = "X" -> "x"
    [] c = "Y" -> "y" [] c = "Z" -> "z" [] OTHER -> c

\* str.lower()
lower(s) == [i \in 1..Len(s) |-> LowerChar(s[i])]

\* `k in s` for strings: k occurs in s as a substring.
Contains(s, k) ==
  \E i \in 1..(Len(s) - Len(k) + 1) : SubSeq(s, i, i + Len(k) - 1) = k

\* s ends with t.
EndsWith(s, t) ==
  /\ Len(s) >= Len(t)
  /\ SubSeq(s, Len(s) - Len(t) + 1, Len(s)) = t

\* A string of n copies of the character c.
Repeat(c, n) == [i \in 1..n |-> c]

\* str(n) of a natural number: its decimal digits.
Digit(d) ==
  CASE d = 0 -> "0" [] d = 1 -> "1" [] d = 2 -> "2" [] d = 3 -> "3"
    [] d = 4 -> "4" [] d = 5 -> "5" [] d = 6 -> "6" [] d = 7 -> "7"
    [] d = 8 -> "8" [] d = 9 -> "9"

RECURSIVE str(_)
str(n) == IF n < 10 THEN <<Digit(n)>> ELSE str(n \div 10) \o <<Digit(n % 10)>>

---------------------------------------------------------------------------
\* The fixed strings of chat_endpoint and plan_endpoint.

\* "Hey! I'm your AI builder. Tell me what you want to create."
GreetingReply ==
  <<
    "H","e","y","!"," ","I","'","m"," ","y","o","u","r"," ","A","I"," ","b",
    "u","i","l","d","e","r","."," ","T","e","l","l"," ","m","e"," ","w","h",
    "a","t"," ","y","o","u"," ","w","a","n","t"," ","t","o"," ","c","r","e",
    "a","t","e","."
  >>

\* "Great! Share your idea, target audience, and key features. I can draft a plan and spin up a starter in minutes."
BuildReply ==
  <<
    "G","r","e","a","t","!"," ","S","h","a","r","e"," ","y","o","u","r"," ",
    "i","d","e","a",","," ","t","a","r","g","e","t"," ","a","u","d","i","e",
    "n","c","e",","," ","a","n","d"," ","k","e","y"," ","f","e","a","t","u",
    "r","e","s","."," ","I"," ","c","a","n"," ","d","r","a","f","t"," ","a",
    " ","p","l","a","n"," ","a","n","d"," ","s","p","i","n"," ","u","p"," ",
    "a"," ","s","t","a","r","t","e","r"," ","i","n"," ","m","i","n","u","t",
    "e","s","."
  >>

\* "This demo is free. In production, cost depends on features and integrations."
PricingReply ==
  <<
    "T","h","i","s"," ","d","e","m","o"," ","i","s"," ","f","r","e","e",".",
    " ","I","n"," ","p","r","o","d","u","c","t","i","o","n",","," ","c","o",
    "s","t"," ","d","e","p","e","n","d","s"," ","o","n"," ","f","e","a","t",
    "u","r","e","s"," ","a","n","d"," ","i","n","t","e","g","r","a","t","i",
    "o","n","s","."
  >>

\* "Got it. I can help you plan features, pages, and backend endpoints. Use the planner below to generate a build plan."
DefaultReply ==
  <<
    "G","o","t"," ","i","t","."," ","I"," ","c","a","n"," ","h","e","l","p",
    " ","y","o","u"," ","p","l","a","n"," ","f","e","a","t","u","r","e","s",
    ","," ","p","a","g","e","s",","," ","a","n","d"," ","b","a","c","k","e",
    "n","d"," ","e","n","d","p","o","i","n","t","s","."," ","U","s","e"," ",
    "t","h","e"," ","p","l","a","n","n","e","r"," ","b","e","l","o","w"," ",
    "t","o"," ","g","e","n","e","r","a","t","e"," ","a"," ","b","u","i","l",
    "d"," ","p","l","a","n","."
  >>

\* " Also noted: '"
NotePrefix ==
  <<
    " ","A","l","s","o"," ","n","o","t","e","d",":"," ","'"
  >>

\* "'."
NoteSuffix == <<"'", ".">>

\* "Plan to build: "
SummaryPrefix ==
  <<
    "P","l","a","n"," ","t","o"," ","b","u","i","l","d",":"," "
  >>

\* "no-db"
NoDb == <<"n", "o", "-", "d", "b">>


---------------------------------------------------------------------------
\* chat_endpoint: the heuristic reply.

GreetingWords ==
  { <<"h","e","l","l","o">>, <<"h","i">>, <<"h","e","y">> }

BuildWords ==
  { <<"w","e","b","s","i","t","e">>, <<"a","p","p">>,
    <<"b","u","i","l","d">>, <<"c","r","e","a","t","e">> }

PricingWords ==
  { <<"p","r","i","c","i","n","g">>, <<"c","o","s","t">>,
    <<"p","r","i","c","e">> }

\* any(k in lower for k in words)
AnyIn(words, lower_msg) == \E k \in words : Contains(lower_msg, k)

\* The chain with the build-intent words tested before the greeting words.
BaseReplyBuildFirst(lower_msg) ==
  IF AnyIn(BuildWords, lower_msg) THEN BuildReply
  ELSE IF AnyIn(GreetingWords, lower_msg) THEN GreetingReply
  ELSE IF AnyIn(PricingWords, lower_msg) THEN PricingReply
  ELSE DefaultReply

\* The if / elif / elif / else chain over the lower-cased message.
BaseReply(lower_msg) ==
  IF AnyIn(GreetingWords, lower_msg) THEN GreetingReply
  ELSE IF AnyIn(BuildWords, lower_msg) THEN BuildReply
  ELSE IF AnyIn(PricingWords, lower_msg) THEN PricingReply
  ELSE DefaultReply

\* The positions of the history's entries whose role is "user".
UserPositions(history) ==
  {i \in 1..Len(history) : history[i].role = "user"}

Max(S) == CHOOSE i \in S : \A j \in S : j <= i

Min(S) == CHOOSE i \in S : \A j \in S : i <= j

\* The oldest user entry, as found by scanning the history forwards.
FirstUser(history) ==
  IF UserPositions(history) = {} THEN None
  ELSE Some(history[Min(UserPositions(history))].content)

\* next((m.content for m in reversed(history) if m.role == "user"), None)
LastUser(history) ==
  IF UserPositions(history) = {} THEN None
  ELSE Some(history[Max(UserPositions(history))].content)

\* Contents of this length or longer are not echoed.
NoteLimit == 120

\* The test with len(last_user) <= 120.
NoteAllowedUpToLimit(last_user, user_msg) ==
  /\ last_user # None
  /\ last_user[1] # <<>>
  /\ last_user[1] # user_msg
  /\ Len(last_user[1]) <= NoteLimit

\* last_user and last_user != user_msg and len(last_user) < 120
NoteAllowed(last_user, user_msg) ==
  /\ last_user # None
  /\ last_user[1] # <<>>
  /\ last_user[1] # user_msg
  /\ Len(last_user[1]) < NoteLimit

\* f" Also noted: '{last_user}'."
Note(content) == NotePrefix \o content \o NoteSuffix

\* The optional echo of the last hint of the history.
Augment(reply, history, user_msg) ==
  IF history # None /\ Len(history[1]) > 0
  THEN IF NoteAllowed(LastUser(history[1]), user_msg)
       THEN reply \o Note(LastUser(history[1])[1])
       ELSE reply
  ELSE reply

\* raise HTTPException(status_code=400, detail=...)
HTTPException(code, detail) ==
  [status_code |-> code, detail |-> detail]

\* A handler's return value, sent with HTTP 200.
Ok(body) == [status_code |-> 200, body |-> body]

\* chat_endpoint with the message taken as given, not stripped.
chat_endpoint_unstripped(r) ==
  LET user_msg == OrElse(r.message, <<>>)
  IN  IF user_msg = <<>>
      THEN HTTPException(400, "Message cannot be empty")
      ELSE Ok([reply |->
                 Augment(BaseReply(lower(user_msg)), r.history, user_msg)])

\* chat_endpoint(req): the response to a ChatRequest.
chat_endpoint(r) ==
  LET user_msg == strip(OrElse(r.message, <<>>))
  IN  IF user_msg = <<>>
      THEN HTTPException(400, "Message cannot be empty")
      ELSE Ok([reply |->
                 Augment(BaseReply(lower(user_msg)), r.history, user_msg)])

---------------------------------------------------------------------------
\* plan_endpoint: the plan template and its persistence.

\* reversed(features)
Reversed(features) ==
  [i \in 1..Len(features) |-> features[Len(features) + 1 - i]]

\* BuildPlan with the features in reverse order.
BuildPlanReversed(idea, features) ==
  [ summary |-> SummaryPrefix \o idea,
    frontend |-> <<>>,
    backend |-> <<>>,
    features |-> Reversed(features),
    next_steps |-> <<>> ]

\* The plan dictionary; only summary and features come from the request.
BuildPlan(idea, features) ==
  [ summary |-> SummaryPrefix \o idea,
    frontend |->
      [ stack |-> <<"Vite + React", "TailwindCSS", "Lucide Icons",
                    "Framer Motion">>,
        pages |-> <<"Home/Hero with 3D Spline", "Features", "Chatbot",
                    "Dashboard (optional)">>,
        components |-> <<"Navbar", "Hero", "Chatbot", "Planner", "Footer">>,
        api_usage |-> <<"POST /api/chat", "POST /api/plan">> ],
    backend |->
      [ stack |-> <<"FastAPI", "MongoDB">>,
        endpoints |->
          << [route |-> "/api/chat", method |-> "POST",
              desc |-> "Conversational helper"],
             [route |-> "/api/plan", method |-> "POST",
              desc |-> "Generate build plan and store"] >>,
        collections |-> <<"generation">> ],
    features |-> features,
    next_steps |-> <<"Review and tweak the plan",
                     "Auto-generate starter components",
                     "Iterate with the chatbot for refinements">> ]

\* Generation(idea=..., features=..., status=..., plan=...)
Generation(idea, features, status, plan) ==
  [idea |-> idea, features |-> features, status |-> status, plan |-> plan]

\* A value of inserted_id: an identifier of the store, or a string.
StoreId(n) == [is_id |-> TRUE, id |-> n, s |-> <<>>]

PyString(s) == [is_id |-> FALSE, id |-> 0, s |-> s]

\* str(inserted_id)
py_str(x) == IF x.is_id THEN str(x.id) ELSE x.s

\* create_document(collection, record): the outcomes the store allows.  It
\* raises when there is no handle or the store is down, and may raise on a
\* write error when it is up; otherwise the document is added under a fresh
\* identifier, which is returned.
create_document(collection, record) ==
  { [raised |-> TRUE, id |-> 0, store |-> generation] }
  \cup
  IF db = "up"
  THEN { [raised |-> FALSE, id |-> Len(generation) + 1,
          store |-> Append(generation,
                           [id |-> Len(generation) + 1, doc |-> record])] }
  ELSE {}

\* The call record kept of one create_document call.
Call(collection, record, o) ==
  [collection |-> collection, record |-> record,
   raised |-> o.raised, id |-> o.id]

\* The persistence with one retry: a second create_document call after the
\* first one raised.
PersistRetry(gen) ==
  { [inserted_id |-> StoreId(o.id),
     store |-> o.store,
     made |-> <<Call("generation", gen, o)>>]
    : o \in {x \in create_document("generation", gen) : ~x.raised} }
  \cup
  { [inserted_id |-> IF o.raised THEN PyString(NoDb) ELSE StoreId(o.id),
     store |-> o.store,
     made |-> <<Call("generation", gen,
                     [raised |-> TRUE, id |-> 0, store |-> generation]),
                Call("generation", gen, o)>>]
    : o \in create_document("generation", gen) }

\* The try / except around the persistence: one create_document call, and
\* "no-db" in place of the identifier when it raises.
Persist(gen) ==
  { [inserted_id |-> IF o.raised THEN PyString(NoDb) ELSE StoreId(o.id),
     store |-> o.store,
     made |-> <<Call("generation", gen, o)>>]
    : o \in create_document("generation", gen) }

---------------------------------------------------------------------------
\* The requests of the model.

\* The pieces chat messages are made of.
Pieces ==
  { <<" ">>, <<"h","i">>, <<"A","p","p">>, <<"c","o","s","t">>, <<"x">> }

RECURSIVE Concats(_)
Concats(n) ==
  IF n = 0 THEN {<<>>}
  ELSE Concats(n - 1) \cup {m \o p : m \in Concats(n - 1), p \in Pieces}

Messages == {None} \cup {Some(m) : m \in Concats(MaxPieces)}

\* History contents: empty, equal to a message, padded, and at the limit.
Contents ==
  { <<>>, <<"h","i">>, <<" ","h","i">>,
    Repeat("x", NoteLimit - 1), Repeat("x", NoteLimit) }

Entries ==
  {[role |-> "user", content |-> c] : c \in Contents}
  \cup {[role |-> "assistant", content |-> <<"o","k">>]}

RECURSIVE SeqsUpTo(_, _)
SeqsUpTo(S, n) ==
  IF n = 0 THEN {<<>>}
  ELSE SeqsUpTo(S, n - 1)
       \cup {Append(h, e) : h \in SeqsUpTo(S, n - 1), e \in S}

Histories == {None} \cup {Some(h) : h \in SeqsUpTo(Entries, MaxHist)}

ChatRequests ==
  {[message |-> m, history |-> h] : m \in Messages, h \in Histories}

\* A few chat requests, for the runs that compare two exchanges.
FewChatRequests ==
  {[message |-> m, history |-> h] :
     m \in {Some(<<>>), Some(<<"h","i">>), Some(<<"x">>)},
     h \in {None, Some(<<[role |-> "user", content |-> <<"h","i">>]>>)}}

Ideas ==
  { None, Some(<<>>), Some(<<" ", "\t">>), Some(<<"a">>),
    Some(<<" ","a"," ">>), Some(<<"a"," ","b">>) }

FeatureLists ==
  { None, Some(<<>>), Some(<<"auth", "chat">>), Some(<<"chat", "auth">>) }

PlanRequests ==
  {[idea |-> i, features |-> f] : i \in Ideas, f \in FeatureLists}

FewPlanRequests ==
  {[idea |-> i, features |-> None] : i \in {Some(<<" ">>), Some(<<"a">>)}}

---------------------------------------------------------------------------
\* The handlers.

\* read_root()
read_root == Ok([message |-> "Hello from FastAPI Backend!"])

\* hello()
hello == Ok([message |-> "Hello from the backend API!"])

\* db.list_collection_names(): a collection exists once it holds a document.
list_collection_names ==
  IF generation = <<>> THEN <<>> ELSE <<"generation">>

\* collections[:n]
Take(s, n) == SubSeq(s, 1, IF Len(s) < n THEN Len(s) ELSE n)

\* test_database(): the diagnostic object (its marks left out of the texts).
\* url_set and name_set: whether DATABASE_URL and DATABASE_NAME are set.
test_database(url_set, name_set) ==
  Ok([ backend |-> "Running",
       database |->
         IF db = "none" THEN "Available but not initialized"
         ELSE IF db = "up" THEN "Connected & Working"
         ELSE "Connected but Error",
       database_url |-> IF url_set THEN "Set" ELSE "Not Set",
       database_name |-> IF name_set THEN "Set" ELSE "Not Set",
       connection_status |->
         IF db = "none" THEN "Not Connected" ELSE "Connected",
       collections |->
         IF db = "up" THEN Take(list_collection_names, 10) ELSE <<>> ])

\* The outcome of plan_endpoint when the persistence ended as p.
PlanOutcome(plan, p) ==
  [ resp |-> Ok([id |-> py_str(p.inserted_id), status |-> "planned",
                 plan |-> plan]),
    store |-> p.store,
    made |-> p.made ]

\* plan_endpoint with no except clause: a raise of the persistence reaches
\* the caller as a server error.
plan_endpoint_unguarded(r) ==
  LET idea == strip(OrElse(r.idea, <<>>))
      features == OrElse(r.features, <<>>)
      plan == BuildPlan(idea, features)
      gen == Generation(idea, features, "planned", plan)
  IN  IF idea = <<>>
      THEN { [ resp |-> HTTPException(400, "Idea is required"),
               store |-> generation,
               made |-> <<>> ] }
      ELSE { IF p.made[Len(p.made)].raised
             THEN [ resp |-> HTTPException(500, "Internal Server Error"),
                    store |-> p.store,
                    made |-> p.made ]
             ELSE PlanOutcome(plan, p)
             : p \in Persist(gen) }

\* plan_endpoint with the idea taken as given, not stripped.
plan_endpoint_unstripped(r) ==
  LET idea == OrElse(r.idea, <<>>)
      features == OrElse(r.features, <<>>)
      plan == BuildPlan(idea, features)
      gen == Generation(idea, features, "planned", plan)
  IN  IF idea = <<>>
      THEN { [ resp |-> HTTPException(400, "Idea is required"),
               store |-> generation,
               made |-> <<>> ] }
      ELSE { PlanOutcome(plan, p) : p \in Persist(gen) }

\* plan_endpoint with the record built from the idea as given, while the
\* plan is built from the stripped idea.
plan_endpoint_raw_record(r) ==
  LET idea == strip(OrElse(r.idea, <<>>))
      features == OrElse(r.features, <<>>)
      plan == BuildPlan(idea, features)
      gen == Generation(OrElse(r.idea, <<>>), features, "planned", plan)
  IN  IF idea = <<>>
      THEN { [ resp |-> HTTPException(400, "Idea is required"),
               store |-> generation,
               made |-> <<>> ] }
      ELSE { PlanOutcome(plan, p) : p \in Persist(gen) }

\* plan_endpoint(req): the outcomes of a PlanRequest: the response, the
\* collection afterwards, and the create_document calls made.
plan_endpoint(r) ==
  LET idea == strip(OrElse(r.idea, <<>>))
      features == OrElse(r.features, <<>>)
      plan == BuildPlan(idea, features)
      gen == Generation(idea, features, "planned", plan)
  IN  IF idea = <<>>
      THEN { [ resp |-> HTTPException(400, "Idea is required"),
               store |-> generation,
               made |-> <<>> ] }
      ELSE { PlanOutcome(plan, p) : p \in Persist(gen) }

---------------------------------------------------------------------------
\* The state machine: a request is handled, and its response returned.

NoRequest == [endpoint |-> "none", body |-> None]

NoResponse == [status_code |-> 0]

NoExchange ==
  [req |-> NoRequest, resp |-> NoResponse, db |-> "none", store |-> <<>>]

\* The create_document calls of made that returned.
Returned(made) == {i \in 1..Len(made) : ~made[i].raised}

Init ==
  /\ db \in {"none", "up", "down"}
  /\ generation = <<>>
  /\ attempts = 0
  /\ accepted = 0
  /\ succeeded = 0
  /\ pc = "idle"
  /\ req = NoRequest
  /\ resp = NoResponse
  /\ calls = <<>>
  /\ seen = NoExchange

\* GET /
GetRoot ==
  /\ pc = "idle"
  /\ pc' = "responded"
  /\ req' = [endpoint |-> "root", body |-> None]
  /\ resp' = read_root
  /\ calls' = <<>>
  /\ UNCHANGED <<db, generation, attempts, accepted, succeeded, seen>>

\* GET /api/hello
GetHello ==
  /\ pc = "idle"
  /\ pc' = "responded"
  /\ req' = [endpoint |-> "hello", body |-> None]
  /\ resp' = hello
  /\ calls' = <<>>
  /\ UNCHANGED <<db, generation, attempts, accepted, succeeded, seen>>

\* GET /test
GetTest(url_set, name_set) ==
  /\ pc = "idle"
  /\ pc' = "responded"
  /\ req' = [endpoint |-> "test", body |-> None]
  /\ resp' = test_database(url_set, name_set)
  /\ calls' = <<>>
  /\ UNCHANGED <<db, generation, attempts, accepted, succeeded, seen>>

\* POST /api/chat by a handler that answers only while the store is up.
PostChatStoreAware(r, remember) ==
  /\ pc = "idle"
  /\ pc' = "responded"
  /\ req' = [endpoint |-> "chat", body |-> r]
  /\ resp' = IF db = "up" THEN chat_endpoint(r)
             ELSE HTTPException(503, "Service Unavailable")
  /\ calls' = <<>>
  /\ seen' = IF remember
             THEN [req |-> req', resp |-> resp', db |-> db,
                   store |-> generation]
             ELSE seen
  /\ UNCHANGED <<db, generation, attempts, accepted, succeeded>>

\* POST /api/chat.  With remember, the exchange is kept in seen.
PostChat(r, remember) ==
  /\ pc = "idle"
  /\ pc' = "responded"
  /\ req' = [endpoint |-> "chat", body |-> r]
  /\ resp' = chat_endpoint(r)
  /\ calls' = <<>>
  /\ seen' = IF remember
             THEN [req |-> req', resp |-> resp', db |-> db,
                   store |-> generation]
             ELSE seen
  /\ UNCHANGED <<db, generation, attempts, accepted, succeeded>>

\* POST /api/plan
PostPlan(r) ==
  /\ pc = "idle"
  /\ attempts < MaxAttempts
  /\ pc' = "responded"
  /\ req' = [endpoint |-> "plan", body |-> r]
  /\ \E o \in plan_endpoint(r) :
       /\ resp' = o.resp
       /\ generation' = o.store
       /\ calls' = o.made
       /\ attempts' = attempts + Len(o.made)
       /\ accepted' = accepted + (IF o.resp.status_code = 400 THEN 0 ELSE 1)
       /\ succeeded' = succeeded + Cardinality(Returned(o.made))
  /\ UNCHANGED <<db, seen>>

\* The response is returned to the caller; the request is over.
Return ==
  /\ pc = "responded"
  /\ pc' = "idle"
  /\ req' = NoRequest
  /\ resp' = NoResponse
  /\ calls' = <<>>
  /\ UNCHANGED <<db, generation, attempts, accepted, succeeded, seen>>

\* The store becomes unreachable, or reachable again.
StoreFlip ==
  /\ pc = "idle"
  /\ db \in {"up", "down"}
  /\ db' = IF db = "up" THEN "down" ELSE "up"
  /\ UNCHANGED <<generation, attempts, accepted, succeeded, pc, req, resp, calls,
               seen>>

\* Every endpoint, with plan requests of every kind and a few chat requests.
\* (Requests are drawn only while no request is being handled.)
Next ==
  \/ GetRoot
  \/ GetHello
  \/ pc = "idle" /\ \E u \in BOOLEAN, n \in BOOLEAN : GetTest(u, n)
  \/ pc = "idle" /\ \E r \in FewChatRequests : PostChat(r, FALSE)
  \/ pc = "idle" /\ \E r \in PlanRequests : PostPlan(r)
  \/ Return
  \/ StoreFlip

Spec == Init /\ [][Next]_vars

\* The chat endpoint alone, with chat requests of every kind.
NextChat ==
  \/ pc = "idle" /\ \E r \in ChatRequests : PostChat(r, FALSE)
  \/ Return
  \/ StoreFlip

SpecChat == Init /\ [][NextChat]_vars

\* Every endpoint, with a few requests, and chat exchanges kept to compare.
NextIndep ==
  \/ GetRoot
  \/ GetHello
  \/ pc = "idle" /\ \E u \in BOOLEAN, n \in BOOLEAN : GetTest(u, n)
  \/ pc = "idle"
       /\ \E r \in FewChatRequests, k \in BOOLEAN : PostChat(r, k)
  \/ pc = "idle" /\ \E r \in FewPlanRequests : PostPlan(r)
  \/ Return
  \/ StoreFlip

SpecIndep == Init /\ [][NextIndep]_vars

---------------------------------------------------------------------------
\* Properties.  They are stated of the state in which a response is being
\* returned (pc = "responded"), or of the step that handles a request.

PlanResponded == pc = "responded" /\ req.endpoint = "plan"

ChatResponded == pc = "responded" /\ req.endpoint = "chat"

\* Every character of s is whitespace (so also: s is empty).
IsBlank(s) == \A i \in 1..Len(s) : s[i] \in Whitespace

\* t is s without its leading and trailing whitespace.
IsTrimOf(t, s) ==
  \E i \in 1..(Len(s) + 1), j \in 0..Len(s) :
    /\ t = SubSeq(s, i, j)
    /\ \A k \in 1..Len(s) : (k < i \/ k > j) => s[k] \in Whitespace
    /\ t # <<>> => (t[1] \notin Whitespace /\ t[Len(t)] \notin Whitespace)

\* The step that handles a request of the endpoint e.
Handles(e) == pc = "idle" /\ pc' = "responded" /\ req'.endpoint = e

C2_BlankIdeaRejectedUnpersisted ==
  [][ ( /\ Handles("plan")
        /\ req'.body.idea # None
        /\ IsBlank(req'.body.idea[1]) )
      => /\ resp'.status_code = 400
         /\ calls' = <<>>
         /\ attempts' = attempts
         /\ generation' = generation ]_vars

\* C2: a blank, non-empty idea is rejected while the store is up and holds a
\* document.
C2_Witness ==
  /\ PlanResponded
  /\ req.body.idea = Some(<<" ", "\t">>)
  /\ resp.status_code = 400
  /\ calls = <<>>
  /\ db = "up"
  /\ generation # <<>>

\* C3 as stated: for every non-empty idea the status is "planned", the
\* summary is "Plan to build: " followed by the idea as given in the request,
\* and the features are the input features (none when omitted).  It is
\* stated here of the ideas that are not blank, which are answered.
C3_SummaryOfIdeaAsGiven ==
  (PlanResponded /\ req.body.idea # None /\ ~IsBlank(req.body.idea[1])) =>
    /\ resp.status_code = 200
    /\ resp.body.status = "planned"
    /\ resp.body.plan.summary = SummaryPrefix \o req.body.idea[1]
    /\ resp.body.plan.features =
         (IF req.body.features = None THEN <<>> ELSE req.body.features[1])

\* C3, amended: for every idea that is not blank the status is "planned",
\* the summary is "Plan to build: " followed by the idea without its leading
\* and trailing whitespace, and the features are the input features in the
\* same order (none when omitted).
C3_SummaryOfTrimmedIdea ==
  (PlanResponded /\ req.body.idea # None /\ ~IsBlank(req.body.idea[1])) =>
    /\ resp.status_code = 200
    /\ resp.body.status = "planned"
    /\ \E n \in 1..Len(req.body.idea[1]) :
         /\ Len(resp.body.plan.summary) = Len(SummaryPrefix) + n
         /\ SubSeq(resp.body.plan.summary, 1, Len(SummaryPrefix))
              = SummaryPrefix
         /\ IsTrimOf(SubSeq(resp.body.plan.summary, Len(SummaryPrefix) + 1,
                            Len(resp.body.plan.summary)),
                     req.body.idea[1])
    /\ resp.body.plan.features =
         (IF req.body.features = None THEN <<>> ELSE req.body.features[1])

\* C3: a plan of an idea given with whitespace around it and two features.
C3_Witness ==
  /\ PlanResponded
  /\ req.body.idea = Some(<<" ", "a", " ">>)
  /\ req.body.features = Some(<<"chat", "auth">>)
  /\ resp.status_code = 200
  /\ resp.body.plan.summary = SummaryPrefix \o <<"a">>
  /\ resp.body.plan.features = <<"chat", "auth">>

\* C10: the record handed to a create_document call that returned agrees
\* with the response: its idea is the trimmed idea of the summary, its
\* features, status and plan are those of the response.
C10_RecordAgreesWithResponse ==
  (PlanResponded /\ calls # <<>> /\ ~calls[Len(calls)].raised) =>
    /\ resp.status_code = 200
    /\ IsTrimOf(calls[Len(calls)].record.idea, req.body.idea[1])
    /\ resp.body.plan.summary
         = SummaryPrefix \o calls[Len(calls)].record.idea
    /\ calls[Len(calls)].record.features = resp.body.plan.features
    /\ calls[Len(calls)].record.status = "planned"
    /\ calls[Len(calls)].record.status = resp.body.status
    /\ calls[Len(calls)].record.plan = resp.body.plan
    /\ calls[Len(calls)].collection = "generation"

\* C10: a record stored for an idea given with whitespace around it.
C10_Witness ==
  /\ PlanResponded
  /\ req.body.idea = Some(<<" ", "a", " ">>)
  /\ req.body.features = Some(<<"auth", "chat">>)
  /\ calls # <<>> /\ ~calls[1].raised
  /\ generation[Len(generation)].doc.idea = <<"a">>
  /\ generation[Len(generation)].doc.features = <<"auth", "chat">>

\* s is t, or t with documents added at its end.
IsPrefix(t, s) == Len(t) <= Len(s) /\ SubSeq(s, 1, Len(t)) = t

\* C8: the collection is create-only.  Every accepted plan request makes
\* one create_document call, every call that returns adds one document, no
\* step of any endpoint changes or removes a stored document, and the
\* collection holds as many documents as calls have returned.
C8_CreateOnly ==
  /\ [](attempts = accepted /\ Len(generation) = succeeded)
  /\ [][ /\ IsPrefix(generation, generation')
         /\ Len(generation') - Len(generation) = succeeded' - succeeded
         /\ Handles("plan") =>
              /\ Len(calls') = (IF resp'.status_code = 400 THEN 0 ELSE 1)
              /\ Len(generation') - Len(generation)
                   = Cardinality(Returned(calls'))
         /\ ~Handles("plan") => generation' = generation ]_vars

\* C8: after two accepted plan requests, one whose call raised and one whose
\* call returned, the collection holds one document.
C8_Witness ==
  /\ PlanResponded
  /\ accepted = 2
  /\ attempts = 2
  /\ succeeded = 1
  /\ Len(generation) = 1

\* The message of the chat request being answered.
Message == req.body.message[1]

\* Some entry of the history has the role "user".
HasUserEntry ==
  /\ req.body.history # None
  /\ \E i \in 1..Len(req.body.history[1]) :
       req.body.history[1][i].role = "user"

\* The content of the most recent user entry: no user entry follows it.
IsLastUserContent(c) ==
  /\ req.body.history # None
  /\ \E i \in 1..Len(req.body.history[1]) :
       /\ req.body.history[1][i].role = "user"
       /\ req.body.history[1][i].content = c
       /\ \A j \in (i + 1)..Len(req.body.history[1]) :
            req.body.history[1][j].role # "user"

\* The contents of the entries of the history.
HistoryContents ==
  IF req.body.history = None THEN {}
  ELSE {req.body.history[1][i].content : i \in 1..Len(req.body.history[1])}

BaseReplies == {GreetingReply, BuildReply, PricingReply, DefaultReply}

\* s begins with t.
StartsWith(s, t) == Len(s) >= Len(t) /\ SubSeq(s, 1, Len(t)) = t

\* The lower-cased message has one of the words as a substring.
Mentions(words) ==
  \E k \in words, t \in {lower(Message)} :
    \E i \in 1..Len(t) : \E j \in i..Len(t) : SubSeq(t, i, j) = k

\* C4: a message that is not blank gets a reply that is not empty; a message
\* that is empty or blank gets a 400 and no reply; whatever the history.
\* ("Non-empty" is read as non-empty after trimming, the reading under which
\* the two halves of the claim do not contradict each other.)
C4_ReplyOrClientError ==
  (ChatResponded /\ req.body.message # None) =>
    /\ ~IsBlank(Message) =>
         /\ resp.status_code = 200
         /\ DOMAIN resp.body = {"reply"}
         /\ resp.body.reply # <<>>
    /\ IsBlank(Message) =>
         /\ resp.status_code = 400
         /\ "body" \notin DOMAIN resp

\* C4: a blank, non-empty message is refused although the history has a
\* user entry that could be echoed.
C4_Witness ==
  /\ ChatResponded
  /\ req.body.message = Some(<<" ", " ">>)
  /\ HasUserEntry
  /\ IsLastUserContent(<<"h", "i">>)
  /\ resp.status_code = 400

\* C5: the base reply is chosen by priority: greeting words first, then
\* build-intent words, then pricing words, else the default reply.
C5_KeywordPriority ==
  (ChatResponded /\ resp.status_code = 200) =>
    /\ Mentions(GreetingWords) => StartsWith(resp.body.reply, GreetingReply)
    /\ (~Mentions(GreetingWords) /\ Mentions(BuildWords)) =>
         StartsWith(resp.body.reply, BuildReply)
    /\ ( /\ ~Mentions(GreetingWords)
         /\ ~Mentions(BuildWords)
         /\ Mentions(PricingWords) ) =>
         StartsWith(resp.body.reply, PricingReply)
    /\ ( /\ ~Mentions(GreetingWords)
         /\ ~Mentions(BuildWords)
         /\ ~Mentions(PricingWords) ) =>
         StartsWith(resp.body.reply, DefaultReply)

\* C5: a message with a greeting word and a build-intent word, in upper and
\* lower case, gets the greeting reply.
C5_Witness ==
  /\ ChatResponded
  /\ req.body.message = Some(<<"A", "p", "p", "h", "i">>)
  /\ resp.status_code = 200
  /\ StartsWith(resp.body.reply, GreetingReply)
  /\ ~StartsWith(resp.body.reply, BuildReply)

\* The reply ends with the note of the most recent user entry.
Noted ==
  \E c \in HistoryContents :
    IsLastUserContent(c) /\ EndsWith(resp.body.reply, Note(c))

\* C6 as stated: the reply ends with the note exactly when the history has a
\* most recent user entry whose content differs from the current message.
\* It is stated here of the messages with no whitespace around them, for
\* which the message and its trimmed form are the same, and of the histories
\* with no empty content.
C6_NotedWhenDifferent ==
  ( /\ ChatResponded
    /\ resp.status_code = 200
    /\ IsTrimOf(Message, Message)
    /\ <<>> \notin HistoryContents ) =>
    ( Noted <=>
        \E c \in HistoryContents :
          IsLastUserContent(c) /\ c # Message )

\* C6, amended: the reply ends with the note exactly when the history has a
\* most recent user entry whose content is not empty, differs from the
\* trimmed current message and is shorter than 120 characters; then the
\* reply is a base reply followed by that note, and else it is a base reply;
\* no older user entry is used in its place.
C6_NotedWhenDifferentShortAndNotEmpty ==
  (ChatResponded /\ resp.status_code = 200) =>
    LET Eligible(c) ==
          /\ IsLastUserContent(c)
          /\ c # <<>>
          /\ ~IsTrimOf(c, Message)
          /\ Len(c) < NoteLimit
    IN  /\ Noted <=> \E c \in HistoryContents : Eligible(c)
        /\ \A c \in HistoryContents :
             Eligible(c) =>
               \E b \in BaseReplies : resp.body.reply = b \o Note(c)
        /\ ~Noted => resp.body.reply \in BaseReplies

\* C6: the newest entry is the assistant's, and the user entry before it is
\* echoed.
C6_Witness ==
  /\ ChatResponded
  /\ req.body.message = Some(<<"x">>)
  /\ req.body.history # None
  /\ Len(req.body.history[1]) = 2
  /\ req.body.history[1][2].role = "assistant"
  /\ req.body.history[1][1] = [role |-> "user", content |-> <<" ", "h", "i">>]
  /\ resp.status_code = 200
  /\ resp.body.reply = DefaultReply \o Note(<<" ", "h", "i">>)

\* C7: when the content of the most recent user entry has 120 characters or
\* more the reply is the base reply alone; when it has 119 or fewer (and is
\* not empty nor the trimmed message) the note is there.
C7_NoteLengthLimit ==
  (ChatResponded /\ resp.status_code = 200) =>
    \A c \in HistoryContents :
      IsLastUserContent(c) =>
        /\ Len(c) >= NoteLimit => resp.body.reply \in BaseReplies
        /\ (Len(c) <= NoteLimit - 1 /\ c # <<>> /\ ~IsTrimOf(c, Message)) =>
             /\ resp.body.reply \notin BaseReplies
             /\ EndsWith(resp.body.reply, Note(c))

\* C7: a content of exactly 120 characters is not echoed.
C7_Witness ==
  /\ ChatResponded
  /\ resp.status_code = 200
  /\ \E c \in HistoryContents :
       IsLastUserContent(c) /\ Len(c) = NoteLimit
  /\ resp.body.reply \in BaseReplies

=============================================================================
